---- MODULE Spec2Model ----
(***************************************************************************)
(* Scan2Go: roster import (POST /admin/upload-csv) and meal verification   *)
(* (POST /verification/verify) over the Student, Vendor and MealRecord     *)
(* collections.                                                            *)
(*                                                                         *)
(* Strings are sequences of one-character (or one-token) strings so that   *)
(* trim(), toLowerCase(), endsWith() and the case-insensitive regex match  *)
(* are computed, not assumed.  E-mail addresses are written in lower case  *)
(* throughout (the Student schema lower-cases them on assignment and on    *)
(* query casting).  A collection is a sequence in insertion order, a       *)
(* document's _id is its position, and findOne returns the first matching  *)
(* document in that (natural) order.  The optional vendor-location column  *)
(* only feeds Vendor.location and is left out.                             *)
(***************************************************************************)
EXTENDS Integers, Sequences, FiniteSets, TLC

VARIABLES students, vendors, meals, now, imp, runs, faults, req, served, answered,
          call, peer

vars ==
  <<students, vendors, meals, now, imp, runs, faults, req, served, answered, call,
    peer>>

(***************************************************************************)
(* Bounds of the model.                                                    *)
(***************************************************************************)
MaxRows == 2
MaxImports == 2
MaxFaults == 1
MaxTime == 2
TicksPerDay == 2
MaxRequests == 2

(***************************************************************************)
(* String helpers.                                                         *)
(***************************************************************************)
Undefined == <<"undefined">>

Blank == <<>>

\* !x for a string cell: undefined or ''
Falsy(x) == x = Undefined \/ x = Blank

LowerChar(c) ==
  CASE c = "A" -> "a"
    [] c = "B" -> "b"
    [] OTHER -> c

ToLower(s) == [i \in DOMAIN s |-> LowerChar(s[i])]

RECURSIVE TrimLeft(_)
TrimLeft(s) == IF s # <<>> /\ Head(s) = " " THEN TrimLeft(Tail(s)) ELSE s

RECURSIVE TrimRight(_)
TrimRight(s) ==
  IF s # <<>> /\ s[Len(s)] = " " THEN TrimRight(SubSeq(s, 1, Len(s) - 1)) ELSE s

Trim(s) == TrimRight(TrimLeft(s))

IsSpace(c) == c = " "

\* s.replace(/\s+/g, '')
RemoveSpaces(s) == SelectSeq(s, LAMBDA c : ~IsSpace(c))

\* new RegExp(escaped(needle), 'i').test(hay): case-insensitive substring
RegexMatchI(needle, hay) ==
  \E i \in 1..(Len(hay) - Len(needle) + 1) :
     SubSeq(ToLower(hay), i, i + Len(needle) - 1) = ToLower(needle)

InstDomain == "@sst.scaler.com"

\* a domain check that accepts every address
EndsWithInstDomain_Any(e) == TRUE

\* email.endsWith('@sst.scaler.com')
EndsWithInstDomain(e) == e # <<>> /\ e[Len(e)] = InstDomain

\* first index of a sequence satisfying a test, 0 when none
FirstIndex(s, Test(_)) ==
  IF \E i \in DOMAIN s : Test(s[i])
  THEN CHOOSE i \in DOMAIN s : Test(s[i]) /\ \A j \in 1..(i - 1) : ~Test(s[j])
  ELSE 0

MapSet(m, k, v) == [x \in DOMAIN m \cup {k} |-> IF x = k THEN v ELSE m[x]]

EmptyMap == [x \in {} |-> 0]

(***************************************************************************)
(* Documents.                                                              *)
(***************************************************************************)
NoClaim == [date |-> -1, vendor |-> 0]

Digits == <<"1", "2", "3", "4", "5", "6", "7", "8", "9">>

\* the token the pre-save hook gives a new Student document: fresh per _id
QrToken(id) == <<"qr", Digits[id]>>

NewStudent(id, name, email, rollNumber, vendor) ==
  [name |-> name, email |-> email, rollNumber |-> rollNumber, vendor |-> vendor,
   isActive |-> TRUE, qrCode |-> QrToken(id),
   lastMealClaimed |-> NoClaim, mealHistory |-> <<>>]

NewVendor(name) == [name |-> name, isActive |-> TRUE]

(***************************************************************************)
(* CSV input: a header line and data lines, each a tuple of raw cells.     *)
(***************************************************************************)
HeaderSheet == <<<<"Full Name">>, <<"Email Address">>, <<"Batch">>, <<"Vendor">>>>

HeaderReadme == <<<<"name">>, <<"email">>, <<"rollNumber">>, <<"vendor">>>>

HeaderNoEmail == <<<<"Full Name">>, <<"E-mail">>, <<"Batch">>, <<"Vendor">>>>

HeaderLines == {HeaderSheet, HeaderReadme, HeaderNoEmail}

EmailA == <<"a", InstDomain>>

EmailB == <<"b", InstDomain>>

EmailG == <<"g", "@gmail.com">>

\* data lines: name, e-mail, roll/batch, vendor
LineA1 == <<<<"n">>, EmailA, <<"1">>, <<"a", "b">>>>

LineB1 == <<<<"n">>, EmailB, <<"1">>, <<"A", "B", " ">>>>

LineA2 == <<<<"m">>, EmailA, <<"2">>, <<"A">>>>

LineB2 == <<<<"m">>, EmailB, <<"2">>, <<"a", " ", "b">>>>

LineG2 == <<<<"n">>, EmailG, <<"2">>, <<"A">>>>

LineBlank == <<<<"n">>, Blank, <<"1">>, <<"A">>>>

\* a line met only by the service's roster: a student and a vendor not yet known
LineC3 == <<<<"n">>, <<"c", InstDomain>>, <<"3">>, <<"c">>>>

RawLines == {LineA1, LineB1, LineA2, LineB2, LineG2, LineBlank}

Rosters == UNION {[1..n -> RawLines] : n \in 0..MaxRows}

\* parseCSVLine: the cells of one line, each trimmed
parseCSVLine(line) == [k \in DOMAIN line |-> Trim(line[k])]

\* row[header]: the last column carrying that header, values[index] || ''
RowGet(headers, values, h) ==
  IF \E k \in DOMAIN headers : headers[k] = h
  THEN LET k == CHOOSE k \in DOMAIN headers :
                   headers[k] = h /\ \A j \in DOMAIN headers : headers[j] = h => j <= k
       IN IF k \in DOMAIN values THEN values[k] ELSE Blank
  ELSE Undefined

possibleNameHeaders ==
  <<<<"Full Name">>, <<"Name">>, <<"name">>, <<"full_name">>, <<"FullName">>>>

possibleEmailHeaders ==
  <<<<"Email Address">>, <<"Email">>, <<"email">>, <<"EmailAddress">>, <<"email_address">>>>

possibleBatchHeaders ==
  <<<<"Batch">>, <<"batch">>, <<"Roll Number">>, <<"roll_number">>, <<"RollNumber">>>>

possibleVendorHeaders ==
  <<<<"Vendor">>, <<"vendor">>, <<"Vendor Name">>, <<"vendor_name">>>>

InHeaders(headers, h) == \E k \in DOMAIN headers : headers[k] = h

\* first accepted spelling present in the header row, else the first spelling
findHeader(headers, possibleHeaders) ==
  LET k == FirstIndex(possibleHeaders, LAMBDA h : InHeaders(headers, h))
  IN IF k # 0 THEN possibleHeaders[k] ELSE possibleHeaders[1]

studentData(headers, row) ==
  [name |-> RowGet(headers, row, findHeader(headers, possibleNameHeaders)),
   email |-> RowGet(headers, row, findHeader(headers, possibleEmailHeaders)),
   rollNumber |-> RowGet(headers, row, findHeader(headers, possibleBatchHeaders)),
   vendor |-> RowGet(headers, row, findHeader(headers, possibleVendorHeaders))]

\* the row passes both validations of the row loop
RowValid(sd) ==
  /\ ~(Falsy(sd.name) \/ Falsy(sd.email) \/ Falsy(sd.rollNumber) \/ Falsy(sd.vendor))
  /\ EndsWithInstDomain(sd.email)

(***************************************************************************)
(* vendorMap: normalized name -> vendor _id, from the active vendors.      *)
(***************************************************************************)
RECURSIVE VendorMapFrom(_, _, _)
VendorMapFrom(vs, k, m) ==
  IF k > Len(vs) THEN m
  ELSE IF ~vs[k].isActive THEN VendorMapFrom(vs, k + 1, m)
  ELSE LET cleanName == ToLower(Trim(vs[k].name))
       IN VendorMapFrom(vs, k + 1,
            MapSet(MapSet(m, cleanName, k), RemoveSpaces(cleanName), k))

vendorMap(vs) == VendorMapFrom(vs, 1, EmptyMap)

(***************************************************************************)
(* POST /admin/upload-csv.  imp is the running request: the parsed rows,   *)
(* the loop index i (1-based), the transaction's view of the collections   *)
(* (txS, txV), the in-memory vendorMap and the lists the report is built   *)
(* from.  The other fields are history: pre and preV, the collections     *)
(* when the run started; prev, the run that finished before this one;      *)
(* resolved, the vendor each row resolved to; fates, what happened to each *)
(* row's writes.                                                           *)
(***************************************************************************)
NoReport ==
  [status |-> "none", totalRows |-> 0, processed |-> 0, errors |-> 0,
   deactivatedCount |-> 0, errorDetails |-> <<>>]

NoRun == [status |-> "none", headers |-> <<>>, lines |-> <<>>, errors |-> 0]

ImpIdle ==
  [pc |-> "idle", headers |-> <<>>, lines |-> <<>>, results |-> <<>>, i |-> 1,
   errors |-> <<>>, processedStudents |-> <<>>, vendorMap |-> EmptyMap,
   txS |-> <<>>, txV |-> <<>>, touched |-> {}, aborted |-> FALSE,
   csvEmails |-> <<>>, report |-> NoReport, pre |-> <<>>, preV |-> <<>>,
   prev |-> NoRun, resolved |-> <<>>, fates |-> <<>>]

\* errors.push(`Row ${i + 2}: ...`); the loop goes on with the next row
RowError(im, kind) ==
  [im EXCEPT !.errors = Append(@, [row |-> im.i + 1, kind |-> kind]),
             !.i = @ + 1]

\* Outcomes of the row's writes: "ok"; "saveErr", student.save rejects before
\* anything reaches the database (validation or a throwing pre-save hook);
\* "dbErr", the database rejects the row's first write, which aborts the
\* transaction the write belongs to.
Fates == {"ok", "saveErr", "dbErr"}

\* a vendor resolution that knows only the vendors mapped when the run began:
\* no partial-name lookup, and a created vendor is not put into vendorMap
ResolveVendor_NoReuse(im, sd, fate) ==
  LET cleanVendorName == Trim(sd.vendor)
      key == ToLower(cleanVendorName)
  IN IF key \in DOMAIN im.vendorMap
     THEN [im |-> im, vendorId |-> im.vendorMap[key], wrote |-> FALSE, threw |-> FALSE]
     ELSE IF im.aborted
     THEN [im |-> im, vendorId |-> 0, wrote |-> FALSE, threw |-> TRUE]
     ELSE IF fate = "dbErr"
     THEN [im |-> [im EXCEPT !.aborted = TRUE],
           vendorId |-> 0, wrote |-> TRUE, threw |-> TRUE]
     ELSE [im |-> [im EXCEPT !.txV = Append(@, NewVendor(cleanVendorName))],
           vendorId |-> Len(im.txV) + 1, wrote |-> TRUE, threw |-> FALSE]

\* Find or create the row's vendor: [im, vendorId, wrote, threw]
ResolveVendor(im, sd, fate) ==
  LET cleanVendorName == Trim(sd.vendor)
      key == ToLower(cleanVendorName)
  IN IF key \in DOMAIN im.vendorMap
     THEN [im |-> im, vendorId |-> im.vendorMap[key], wrote |-> FALSE, threw |-> FALSE]
     ELSE IF im.aborted
     THEN [im |-> im, vendorId |-> 0, wrote |-> FALSE, threw |-> TRUE]
     ELSE LET existingVendor ==
                FirstIndex(im.txV, LAMBDA v : RegexMatchI(cleanVendorName, v.name))
          IN IF existingVendor # 0
             THEN [im |-> [im EXCEPT !.vendorMap = MapSet(@, key, existingVendor)],
                   vendorId |-> existingVendor, wrote |-> FALSE, threw |-> FALSE]
             ELSE IF fate = "dbErr"
             THEN [im |-> [im EXCEPT !.aborted = TRUE],
                   vendorId |-> 0, wrote |-> TRUE, threw |-> TRUE]
             ELSE [im |-> [im EXCEPT !.txV = Append(@, NewVendor(cleanVendorName)),
                                     !.vendorMap = MapSet(@, key, Len(im.txV) + 1)],
                   vendorId |-> Len(im.txV) + 1, wrote |-> TRUE, threw |-> FALSE]

\* Student.findOne({$or: [{email}, {rollNumber}]}) in the transaction
FindStudentForRow(txS, sd) ==
  FirstIndex(txS, LAMBDA s : s.email = sd.email \/ s.rollNumber = sd.rollNumber)

\* Update the matched student or create a new one, then processedStudents.push
UpsertStudent(im, sd, vendorId, wrote, fate) ==
  IF im.aborted THEN RowError(im, "exception")
  ELSE
    LET student == FindStudentForRow(im.txS, sd)
    IN IF fate = "saveErr" THEN RowError(im, "exception")
       ELSE IF fate = "dbErr" /\ ~wrote
       THEN RowError([im EXCEPT !.aborted = TRUE], "exception")
       ELSE IF student # 0
       THEN [im EXCEPT !.txS[student].name = sd.name,
                       !.txS[student].rollNumber = sd.rollNumber,
                       !.txS[student].vendor = vendorId,
                       !.txS[student].isActive = TRUE,
                       !.touched = @ \cup {student},
                       !.processedStudents = Append(@, im.txS[student].email),
                       !.i = @ + 1]
       ELSE [im EXCEPT !.txS = Append(@, NewStudent(Len(im.txS) + 1, sd.name,
                                        sd.email, sd.rollNumber, vendorId)),
                       !.processedStudents = Append(@, sd.email),
                       !.i = @ + 1]

\* One iteration of the row loop
ProcessRow(im0, fate) ==
  LET im == [im0 EXCEPT !.fates = Append(@, fate)]
      sd == studentData(im.headers, im.results[im.i])
  IN IF Falsy(sd.name) \/ Falsy(sd.email) \/ Falsy(sd.rollNumber) \/ Falsy(sd.vendor)
     THEN RowError(im, "Missing required fields")
     ELSE IF ~EndsWithInstDomain(sd.email)
     THEN RowError(im, "Invalid email domain")
     ELSE LET rv == ResolveVendor(im, sd, fate)
          IN IF rv.threw THEN RowError(rv.im, "exception")
             ELSE UpsertStudent(
                    [rv.im EXCEPT !.resolved =
                       Append(@, [row |-> im.i, name |-> Trim(sd.vendor),
                                  vendorId |-> rv.vendorId])],
                    sd, rv.vendorId, rv.wrote, fate)

\* The fates that make a difference for the row at hand
RowFates(im) ==
  IF im.aborted \/ ~RowValid(studentData(im.headers, im.results[im.i]))
  THEN {"ok"}
  ELSE Fates

\* csvEmails: the trimmed non-empty cells of the located e-mail column
csvEmails(headers, results) ==
  LET emailHeader == FirstIndex(possibleEmailHeaders, LAMBDA h : InHeaders(headers, h))
  IN IF emailHeader = 0 THEN <<>>
     ELSE SelectSeq([k \in DOMAIN results |->
                       LET email == RowGet(headers, results[k],
                                           possibleEmailHeaders[emailHeader])
                       IN IF Falsy(email) THEN Blank ELSE Trim(email)],
                    LAMBDA e : e # Blank)

InSeq(x, s) == \E k \in DOMAIN s : s[k] = x

\* a sweep that ignores the roster's e-mails and deactivates every active student
DeactivateNotIn_Everyone(ss, emails) ==
  [k \in DOMAIN ss |-> [ss[k] EXCEPT !.isActive = FALSE]]

\* Student.updateMany({email: {$nin: emails}, isActive: true}, {isActive: false})
DeactivateNotIn(ss, emails) ==
  [k \in DOMAIN ss |->
     IF ss[k].isActive /\ ~InSeq(ss[k].email, emails)
     THEN [ss[k] EXCEPT !.isActive = FALSE] ELSE ss[k]]

modifiedCount(ss, emails) ==
  Cardinality({k \in DOMAIN ss : ss[k].isActive /\ ~InSeq(ss[k].email, emails)})

\* a commit that writes back each document whole, as the run read it
CommitStudents_WholeDocument(ss, im) == im.txS

\* a commit that makes the inserted documents visible and drops the updates
CommitStudents_InsertsOnly(ss, im) ==
  [k \in DOMAIN im.txS |-> IF k \in DOMAIN ss THEN ss[k] ELSE im.txS[k]]

\* What commitTransaction makes visible: the fields the run's saves set on the
\* students it matched, and the documents it inserted
CommitStudents(ss, im) ==
  [k \in DOMAIN im.txS |->
     IF k \in DOMAIN ss
     THEN (IF k \in im.touched
           THEN [ss[k] EXCEPT !.name = im.txS[k].name,
                              !.rollNumber = im.txS[k].rollNumber,
                              !.vendor = im.txS[k].vendor,
                              !.isActive = im.txS[k].isActive]
           ELSE ss[k])
     ELSE im.txS[k]]

\* a preview that is not cut
FirstN_All(s, n) == s

\* slice(0, n)
FirstN(s, n) == SubSeq(s, 1, IF Len(s) < n THEN Len(s) ELSE n)

ErrorPreview == 10

\* a second upload-csv request, running beside the one in imp
NoPeer == [pc |-> "idle", lines |-> <<>>, csvEmails |-> <<>>]

ImportStart(headerLine, lines) ==
  /\ imp.pc \in {"idle", "done"}
  /\ runs < MaxImports
  /\ imp' = [ImpIdle EXCEPT
               !.pc = "rows",
               !.headers = parseCSVLine(headerLine),
               !.lines = lines,
               !.results = [k \in DOMAIN lines |-> parseCSVLine(lines[k])],
               !.vendorMap = vendorMap(vendors),
               !.txS = students, !.txV = vendors,
               !.pre = students, !.preV = vendors,
               !.prev = [status |-> imp.report.status, headers |-> imp.headers,
                         lines |-> imp.lines, errors |-> imp.report.errors]]
  /\ runs' = runs + 1
  /\ UNCHANGED <<students, vendors, meals, now, faults, req, served, answered, call, peer>>

ImportRow(fate) ==
  /\ imp.pc = "rows"
  /\ imp.i <= Len(imp.results)
  /\ fate \in RowFates(imp)
  /\ fate # "ok" => faults < MaxFaults
  /\ imp' = ProcessRow(imp, fate)
  /\ faults' = IF fate = "ok" THEN faults ELSE faults + 1
  /\ UNCHANGED <<students, vendors, meals, now, runs, req, served, answered, call, peer>>

\* End of the loop: csvEmails, then commitTransaction.  A transaction the
\* database aborted cannot commit: commitTransaction throws, the handler
\* leaves through its outer catch without a report, and nothing of the run is
\* visible.
ImportCommit ==
  /\ imp.pc = "rows"
  /\ imp.i > Len(imp.results)
  /\ IF imp.aborted
     THEN /\ imp' = [imp EXCEPT !.pc = "done", !.report.status = "failed",
                                !.csvEmails = csvEmails(imp.headers, imp.results)]
          /\ UNCHANGED <<students, vendors>>
     ELSE /\ imp' = [imp EXCEPT !.pc = "sweep",
                                !.csvEmails = csvEmails(imp.headers, imp.results)]
          /\ students' = CommitStudents(students, imp)
          /\ vendors' = imp.txV
  /\ UNCHANGED <<meals, now, runs, faults, req, served, answered, call, peer>>

\* After the commit: the deactivation sweep (skipped when csvEmails is empty)
\* and the report
ImportSweep ==
  /\ imp.pc = "sweep"
  /\ LET sweep == Len(imp.csvEmails) > 0
         after == IF sweep THEN DeactivateNotIn(students, imp.csvEmails) ELSE students
     IN /\ students' = after
        /\ imp' = [imp EXCEPT
             !.pc = "done",
             !.report = [status |-> "ok",
                         totalRows |-> Len(imp.results),
                         processed |-> Len(imp.processedStudents),
                         errors |-> Len(imp.errors),
                         deactivatedCount |->
                           IF sweep THEN modifiedCount(students, imp.csvEmails) ELSE 0,
                         errorDetails |-> FirstN(imp.errors, ErrorPreview)]]
  /\ UNCHANGED <<vendors, meals, now, runs, faults, req, served, answered, call, peer>>

(***************************************************************************)
(* POST /verification/verify.  req[c] is the request client c has in       *)
(* flight; its pc is the await the handler is suspended at.  Dates are     *)
(* clock ticks, TicksPerDay ticks to a calendar day.                       *)
(***************************************************************************)
Clients == {"c1", "c2"}

\* the principals behind the clients: vendor-role users, c1 attached to the
\* first vendor and c2 to the second (User.role, User.vendor)
Role == [c \in Clients |-> "vendor"]

PrincipalVendor == [c \in Clients |-> IF c = "c1" THEN 1 ELSE 2]

\* the role gate of the route: the caller's role is vendor or admin
requireVendor(c) == Role[c] \in {"vendor", "admin"}

Identifiers == {<<"1">>, <<"2">>, EmailB, QrToken(1), <<"zz">>}

\* today.setHours(0, 0, 0, 0)
Midnight(t) == t - (t % TicksPerDay)

ReqIdle ==
  [pc |-> "idle", identifier |-> <<>>, vendorId |-> 0, student |-> 0,
   today |-> 0, date |-> 0, stamp |-> 0, mealRecord |-> 0,
   outcome |-> "none", claimedAt |-> -1, assignedVendor |-> <<>>,
   rejected |-> FALSE, prior |-> {}]

\* a lookup that does not look at isActive
FindStudent_AnyStatus(ss, identifier) ==
  FirstIndex(ss, LAMBDA s : \/ s.qrCode = identifier
                            \/ s.rollNumber = identifier
                            \/ s.email = identifier)

\* Student.findOne({$or: [{qrCode}, {rollNumber}, {email}], isActive: true})
FindStudent(ss, identifier) ==
  FirstIndex(ss, LAMBDA s : /\ s.isActive
                            /\ \/ s.qrCode = identifier
                               \/ s.rollNumber = identifier
                               \/ s.email = identifier)

\* a ledger lookup without a window: any earlier claim of the student counts
FindTodayMeal_AnyDay(ms, student, today) ==
  FirstIndex(ms, LAMBDA m : m.student = student /\ m.claimed)

\* a ledger lookup whose window leaves out midnight itself ($gt for $gte)
FindTodayMeal_AfterMidnight(ms, student, today) ==
  FirstIndex(ms, LAMBDA m : /\ m.student = student
                            /\ m.date > today /\ m.date < today + TicksPerDay
                            /\ m.claimed)

\* MealRecord.findOne({student, date: {$gte: today, $lt: tomorrow}, claimed: true})
FindTodayMeal(ms, student, today) ==
  FirstIndex(ms, LAMBDA m : /\ m.student = student
                            /\ m.date >= today /\ m.date < today + TicksPerDay
                            /\ m.claimed)

\* the unique index {student: 1, date: 1, mealType: 1}
DuplicateKey(ms, doc) ==
  \E k \in DOMAIN ms : /\ ms[k].student = doc.student
                       /\ ms[k].date = doc.date
                       /\ ms[k].mealType = doc.mealType

\* a MealRecord that leaves claimed at its default and names no principal
NewMealRecord_Unclaimed(student, vendorId, t, principal) ==
  [student |-> student, vendor |-> vendorId, date |-> t, mealType |-> "lunch",
   claimed |-> FALSE, claimedAt |-> t, claimedBy |-> "none"]

NewMealRecord(student, vendorId, t, principal) ==
  [student |-> student, vendor |-> vendorId, date |-> t, mealType |-> "lunch",
   claimed |-> TRUE, claimedAt |-> t, claimedBy |-> principal]

\* a vendor check that is skipped for a student who has claimed before
WrongVendor_UnlessClaimed(student, vendorId) ==
  student.vendor # vendorId /\ student.lastMealClaimed = NoClaim

\* a vendor check that lets every student through
WrongVendor_Never(student, vendorId) == FALSE

\* student.vendor._id.toString() !== vendorId
WrongVendor(student, vendorId) == student.vendor # vendorId

\* History: the student's claim of the running day, when it is the only one
\* and its request has answered verified = true; else empty
PriorClaim(student) ==
  LET todays == {k \in DOMAIN meals : /\ meals[k].student = student
                                      /\ meals[k].claimed
                                      /\ Midnight(meals[k].date) = Midnight(now)}
  IN IF Cardinality(todays) = 1 /\ todays \subseteq answered THEN todays ELSE {}

\* The student lookup and the vendor check.  populate() leaves student.vendor
\* null when the reference matches no Vendor, and student.vendor._id then
\* throws into the handler's catch
VerifyStart(c, identifier, vendorId) ==
  /\ req[c].pc \in {"idle", "done"}
  /\ requireVendor(c)
  /\ served < MaxRequests
  /\ served' = served + 1
  /\ LET student == FindStudent(students, identifier)
         r == [ReqIdle EXCEPT !.identifier = identifier, !.vendorId = vendorId,
                              !.student = student]
     IN req' = [req EXCEPT ![c] =
          IF student = 0
          THEN [r EXCEPT !.pc = "done", !.outcome = "notFound"]
          ELSE IF students[student].vendor \notin DOMAIN vendors
          THEN [r EXCEPT !.pc = "done", !.outcome = "error500"]
          ELSE IF WrongVendor(students[student], vendorId)
          THEN [r EXCEPT !.pc = "done", !.outcome = "wrongVendor",
                         !.assignedVendor = vendors[students[student].vendor].name,
                         !.prior = PriorClaim(student)]
          ELSE [r EXCEPT !.pc = "check", !.today = Midnight(now),
                         !.prior = PriorClaim(student)]]
  /\ UNCHANGED <<students, vendors, meals, now, imp, runs, faults, answered, call, peer>>

\* The ledger lookup; when nothing is found the MealRecord is built (date = now)
VerifyCheck(c) ==
  /\ req[c].pc = "check"
  /\ LET todayMeal == FindTodayMeal(meals, req[c].student, req[c].today)
     IN req' = [req EXCEPT ![c] =
          IF todayMeal # 0
          THEN [@ EXCEPT !.pc = "done", !.outcome = "alreadyClaimed",
                         !.claimedAt = meals[todayMeal].claimedAt]
          ELSE [@ EXCEPT !.pc = "save", !.date = now]]
  /\ UNCHANGED <<students, vendors, meals, now, imp, runs, faults, served, answered, call, peer>>

\* mealRecord.save(): the insert, rejected by the unique index on a duplicate
\* key; the rejection is caught by the handler's catch, which answers 500
VerifySave(c) ==
  /\ req[c].pc = "save"
  /\ LET doc == NewMealRecord(req[c].student, req[c].vendorId, req[c].date, c)
     IN IF DuplicateKey(meals, doc)
        THEN /\ req' = [req EXCEPT ![c].pc = "done", ![c].outcome = "error500",
                                   ![c].rejected = TRUE]
             /\ UNCHANGED meals
        ELSE /\ meals' = Append(meals, doc)
             /\ req' = [req EXCEPT ![c].pc = "studentSave", ![c].stamp = now,
                                   ![c].mealRecord = Len(meals) + 1]
  /\ UNCHANGED <<students, vendors, now, imp, runs, faults, served, answered, call, peer>>

\* student.save(): lastMealClaimed and the mealHistory push, then the answer.
\* When the save fails (the database cannot be reached, the document is gone)
\* the handler's catch answers 500; nothing undoes the MealRecord insert.
VerifyStudentSave(c, failed) ==
  /\ req[c].pc = "studentSave"
  /\ failed => faults < MaxFaults
  /\ IF failed
     THEN /\ req' = [req EXCEPT ![c].pc = "done", ![c].outcome = "error500"]
          /\ faults' = faults + 1
          /\ UNCHANGED <<students, answered>>
     ELSE /\ students' = [students EXCEPT
               ![req[c].student].lastMealClaimed =
                   [date |-> req[c].stamp, vendor |-> req[c].vendorId],
               ![req[c].student].mealHistory =
                   Append(@, [date |-> req[c].stamp, vendor |-> req[c].vendorId,
                              claimed |-> TRUE])]
          /\ req' = [req EXCEPT ![c].pc = "done", ![c].outcome = "success",
                                ![c].claimedAt = meals[req[c].mealRecord].claimedAt]
          /\ answered' = answered \cup {req[c].mealRecord}
          /\ UNCHANGED faults
  /\ UNCHANGED <<vendors, meals, now, imp, runs, served, call, peer>>

Tick ==
  /\ now < MaxTime
  /\ now' = now + 1
  /\ UNCHANGED <<students, vendors, meals, imp, runs, faults, req, served, answered, call, peer>>

(***************************************************************************)
(* The single-request operations on the Student collection.  call is the   *)
(* most recent of these requests with its answer; call.n counts them.      *)
(***************************************************************************)
MaxCalls == 1

NoCall == [n |-> 0, op |-> "none", id |-> 0, status |-> 0, qrCode |-> <<>>]

Answer(op, id, status, qrCode) ==
  [n |-> call.n + 1, op |-> op, id |-> id, status |-> status, qrCode |-> qrCode]

\* a well-formed ObjectId that no Vendor document carries
NoSuchVendor == 9

\* req.body of PUT /students/:id: has is the set of keys present
PutBody(has, name, vendor, isActive) ==
  [has |-> has, name |-> name, vendor |-> vendor, isActive |-> isActive]

PutBodies ==
  {PutBody({}, Blank, 0, FALSE)}
    \cup {PutBody({"name"}, n, 0, FALSE) : n \in {<<"p">>, Blank}}
    \cup {PutBody({"vendor"}, Blank, v, FALSE) : v \in (DOMAIN vendors) \cup {NoSuchVendor}}
    \cup {PutBody({"isActive"}, Blank, 0, a) : a \in BOOLEAN}
    \cup {PutBody({"name", "vendor", "isActive"}, <<"p">>, v, TRUE) : v \in DOMAIN vendors}

\* runValidators: the required validator of a path the update sets
PutValid(body) == "name" \in body.has => ~Falsy(Trim(body.name))

\* the update {name, vendor, isActive}: keys undefined in the body are left out
PutUpdate(s, body) ==
  [s EXCEPT !.name = IF "name" \in body.has THEN Trim(body.name) ELSE @,
            !.vendor = IF "vendor" \in body.has THEN body.vendor ELSE @,
            !.isActive = IF "isActive" \in body.has THEN body.isActive ELSE @]

\* PUT /students/:id
PutStudent(id, body) ==
  /\ call.n < MaxCalls
  /\ IF ~PutValid(body)
     THEN /\ call' = Answer("put", id, 500, <<>>)
          /\ UNCHANGED students
     ELSE IF id \notin DOMAIN students
     THEN /\ call' = Answer("put", id, 404, <<>>)
          /\ UNCHANGED students
     ELSE /\ students' = [students EXCEPT ![id] = PutUpdate(@, body)]
          /\ call' = Answer("put", id, 200, <<>>)
  /\ UNCHANGED <<vendors, meals, now, imp, runs, faults, req, served, answered, peer>>

\* DELETE /students/:id
DeleteStudent(id) ==
  /\ call.n < MaxCalls
  /\ IF id \notin DOMAIN students
     THEN /\ call' = Answer("delete", id, 404, <<>>)
          /\ UNCHANGED students
     ELSE /\ students' = [students EXCEPT ![id].isActive = FALSE]
          /\ call' = Answer("delete", id, 200, <<>>)
  /\ UNCHANGED <<vendors, meals, now, imp, runs, faults, req, served, answered, peer>>

\* POST /admin/bulk-deactivate
BulkDeactivate(studentIds) ==
  /\ call.n < MaxCalls
  /\ IF studentIds = {}
     THEN /\ call' = Answer("bulk-deactivate", 0, 400, <<>>)
          /\ UNCHANGED students
     ELSE /\ students' = [k \in DOMAIN students |->
                            IF k \in studentIds
                            THEN [students[k] EXCEPT !.isActive = FALSE]
                            ELSE students[k]]
          /\ call' = Answer("bulk-deactivate", 0, 200, <<>>)
  /\ UNCHANGED <<vendors, meals, now, imp, runs, faults, req, served, answered, peer>>

\* a my-qr-code that issues a new token on every call
EnsureQrCode_Regenerate(s, fresh) == [s EXCEPT !.qrCode = fresh]

\* if (!student.qrCode) student.qrCode = randomUUID()
EnsureQrCode(s, fresh) == IF Falsy(s.qrCode) THEN [s EXCEPT !.qrCode = fresh] ELSE s

\* GET /students/my-qr-code of the principal with that e-mail
MyQrCode(email) ==
  /\ call.n < MaxCalls
  /\ LET student == FirstIndex(students, LAMBDA s : s.email = email)
     IN IF student = 0
        THEN /\ call' = Answer("my-qr-code", 0, 404, <<>>)
             /\ UNCHANGED students
        ELSE IF students[student].vendor \notin DOMAIN vendors
        THEN /\ call' = Answer("my-qr-code", student, 404, <<>>)
             /\ UNCHANGED students
        ELSE LET saved == EnsureQrCode(students[student],
                                       QrToken(Len(students) + student))
             IN /\ students' = [students EXCEPT ![student] = saved]
                /\ call' = Answer("my-qr-code", student, 200, saved.qrCode)
  /\ UNCHANGED <<vendors, meals, now, imp, runs, faults, req, served, answered, peer>>

(***************************************************************************)
(* The importStudents script: it clears the Student collection and creates *)
(* one student per valid row of its sheet; it creates no vendor.           *)
(***************************************************************************)
\* the row loop of the script over the rows still to do; base is the number
\* of Student documents created before the script ran
RECURSIVE importStudentsRows(_, _, _, _, _)
importStudentsRows(ss, vs, vmap, results, base) ==
  IF results = <<>> THEN ss
  ELSE
    LET row == Head(results)
        sd == [name |-> RowGet(HeaderSheet, row, <<"Full Name">>),
               email |-> RowGet(HeaderSheet, row, <<"Email Address">>),
               rollNumber |-> RowGet(HeaderSheet, row, <<"Batch">>),
               vendor |-> RowGet(HeaderSheet, row, <<"Vendor">>)]
        cleanVendorName == Trim(sd.vendor)
        key == ToLower(cleanVendorName)
        vendorId == IF key \in DOMAIN vmap THEN vmap[key]
                    ELSE FirstIndex(vs, LAMBDA v : RegexMatchI(cleanVendorName, v.name))
        saved == /\ RowValid(sd)
                 /\ vendorId # 0
                 /\ ~\E k \in DOMAIN ss : ss[k].email = sd.email
        student == [NewStudent(Len(ss) + 1, Trim(sd.name), sd.email,
                               Trim(sd.rollNumber), vendorId)
                      EXCEPT !.qrCode = QrToken(base + Len(ss) + 1)]
    IN importStudentsRows(IF saved THEN Append(ss, student) ELSE ss,
                          vs, vmap, Tail(results), base)

importStudents(lines) ==
  /\ call.n < MaxCalls
  /\ imp.pc \in {"idle", "done"}
  /\ students' = importStudentsRows(<<>>, vendors, vendorMap(vendors), lines,
                                    Len(students))
  /\ call' = Answer("importStudents", 0, 0, <<>>)
  /\ UNCHANGED <<vendors, meals, now, imp, runs, faults, req, served, answered, peer>>

(***************************************************************************)
(* Specifications.  Spec: the roster imports from the empty database.      *)
(* SpecVerify: verification requests of two clients against every registry *)
(* that up to two error-free imports leave behind.                         *)
(***************************************************************************)
RECURSIVE RunRows(_)
RunRows(im) == IF im.i > Len(im.results) THEN im ELSE RunRows(ProcessRow(im, "ok"))

\* the collections after one complete upload-csv run without write failures
Reconcile(db, headerLine, lines) ==
  LET im == RunRows([ImpIdle EXCEPT
                 !.headers = parseCSVLine(headerLine),
                 !.results = [k \in DOMAIN lines |-> parseCSVLine(lines[k])],
                 !.vendorMap = vendorMap(db.vendors),
                 !.txS = db.students, !.txV = db.vendors])
      emails == csvEmails(im.headers, im.results)
      committed == CommitStudents(db.students, im)
  IN [students |-> IF Len(emails) > 0 THEN DeactivateNotIn(committed, emails)
                   ELSE committed,
      vendors |-> im.txV]

EmptyDb == [students |-> <<>>, vendors |-> <<>>]

\* Pairs of successive rosters: they leave two students at two vendors; the
\* second student deactivated by the sweep; both students active with one
\* roll number at different vendors
SeedRuns ==
  { <<<<LineA1, LineB2>>, <<>>>>,
    <<<<LineA1, LineB2>>, <<LineA1>>>>,
    <<<<LineA1, LineB2>>, <<LineB2, LineA2>>>> }

Registries ==
  {Reconcile(Reconcile(EmptyDb, HeaderSheet, r[1]), HeaderSheet, r[2]) : r \in SeedRuns}

Init ==
  /\ students = <<>>
  /\ vendors = <<>>
  /\ meals = <<>>
  /\ now = 0
  /\ imp = ImpIdle
  /\ runs = 0
  /\ faults = 0
  /\ req = [c \in Clients |-> ReqIdle]
  /\ served = 0
  /\ answered = {}
  /\ call = NoCall
  /\ peer = NoPeer

Next ==
  \/ \E h \in HeaderLines, lines \in Rosters : ImportStart(h, lines)
  \/ \E fate \in Fates : ImportRow(fate)
  \/ ImportCommit
  \/ ImportSweep

Spec == Init /\ [][Next]_vars

InitVerify ==
  /\ \E db \in Registries : students = db.students /\ vendors = db.vendors
  /\ meals = <<>>
  /\ now = 0
  /\ imp = ImpIdle
  /\ runs = 0
  /\ faults = 0
  /\ req = [c \in Clients |-> ReqIdle]
  /\ served = 0
  /\ answered = {}
  /\ call = NoCall
  /\ peer = NoPeer

NextVerify ==
  \/ \E c \in Clients, identifier \in Identifiers, vendorId \in 1..(Len(vendors) + 1) :
        VerifyStart(c, identifier, vendorId)
  \/ \E c \in Clients : VerifyCheck(c)
  \/ \E c \in Clients : VerifySave(c)
  \/ \E c \in Clients, failed \in BOOLEAN : VerifyStudentSave(c, failed)
  \/ Tick

SpecVerify == InitVerify /\ [][NextVerify]_vars

\* The service as a whole: verification requests, the single-request
\* operations and one roster import, over the registry two imports leave
\* behind: one student active, one deactivated by the sweep
ServiceRosters == {<<LineB2, LineA2>>, <<LineC3, LineB2>>}

ServiceRegistry ==
  Reconcile(Reconcile(EmptyDb, HeaderSheet, <<LineA1, LineB2>>), HeaderSheet, <<LineA1>>)

InitService ==
  /\ students = ServiceRegistry.students
  /\ vendors = ServiceRegistry.vendors
  /\ meals = <<>>
  /\ now = 0
  /\ imp = ImpIdle
  /\ runs = MaxImports - 1
  /\ faults = 0
  /\ req = [c \in Clients |-> ReqIdle]
  /\ served = 0
  /\ answered = {}
  /\ call = NoCall
  /\ peer = NoPeer

NextService ==
  \/ \E lines \in ServiceRosters : ImportStart(HeaderSheet, lines)
  \/ \E fate \in Fates : ImportRow(fate)
  \/ ImportCommit
  \/ ImportSweep
  \/ \E c \in {"c1"}, identifier \in Identifiers, vendorId \in 1..Len(vendors) :
        VerifyStart(c, identifier, vendorId)
  \/ \E c \in {"c1"} : VerifyCheck(c)
  \/ \E c \in {"c1"} : VerifySave(c)
  \/ \E c \in {"c1"}, failed \in BOOLEAN : VerifyStudentSave(c, failed)
  \/ \E id \in 1..(Len(students) + 1), body \in PutBodies : PutStudent(id, body)
  \/ \E id \in 1..(Len(students) + 1) : DeleteStudent(id)
  \/ \E studentIds \in SUBSET (DOMAIN students) : BulkDeactivate(studentIds)
  \/ \E email \in {EmailA, EmailB, EmailG} : MyQrCode(email)

SpecService == InitService /\ [][NextService]_vars

\* The roster imports and the importStudents script
ScriptRosters == {<<LineA1, LineB2>>, <<LineB1>>, <<LineA2, LineG2>>}

NextScript ==
  \/ \E lines \in ScriptRosters : ImportStart(HeaderSheet, lines)
  \/ \E fate \in Fates : ImportRow(fate)
  \/ ImportCommit
  \/ ImportSweep
  \/ \E lines \in ScriptRosters : importStudents(lines)
  \/ \E id \in 1..(Len(students) + 1) : DeleteStudent(id)
  \/ \E studentIds \in SUBSET (DOMAIN students) : BulkDeactivate(studentIds)

SpecScript == Init /\ [][NextScript]_vars

(***************************************************************************)
(* Two upload-csv requests at a time.  The second request's transaction    *)
(* runs between the transactions of others (it never overlaps the row loop *)
(* of imp, so no write conflict arises); its sweep is a later step.        *)
(***************************************************************************)
\* session.startTransaction() ... session.commitTransaction() of the second
\* request, without write failures
PeerImport(headerLine, lines) ==
  /\ peer.pc = "idle"
  /\ imp.pc # "rows"
  /\ LET im == RunRows([ImpIdle EXCEPT
                   !.headers = parseCSVLine(headerLine),
                   !.results = [k \in DOMAIN lines |-> parseCSVLine(lines[k])],
                   !.vendorMap = vendorMap(vendors),
                   !.txS = students, !.txV = vendors])
     IN /\ students' = CommitStudents(students, im)
        /\ vendors' = im.txV
        /\ peer' = [pc |-> "sweep", lines |-> lines,
                    csvEmails |-> csvEmails(im.headers, im.results)]
  /\ UNCHANGED <<meals, now, imp, runs, faults, req, served, answered, call>>

\* the second request's Student.updateMany after its commit
PeerSweep ==
  /\ peer.pc = "sweep"
  /\ imp.pc # "rows"
  /\ students' = IF Len(peer.csvEmails) > 0
                 THEN DeactivateNotIn(students, peer.csvEmails) ELSE students
  /\ peer' = [peer EXCEPT !.pc = "done"]
  /\ UNCHANGED <<vendors, meals, now, imp, runs, faults, req, served, answered, call>>

\* both students of the registry active, each at a vendor
ConcurrentRegistry == Reconcile(EmptyDb, HeaderSheet, <<LineA1, LineB2>>)

ConcurrentRosters ==
  {<<LineA1>>, <<LineB2>>, <<LineA1, LineB2>>, <<LineC3>>, <<LineC3, LineA1>>}

InitConcurrent ==
  /\ students = ConcurrentRegistry.students
  /\ vendors = ConcurrentRegistry.vendors
  /\ meals = <<>>
  /\ now = 0
  /\ imp = ImpIdle
  /\ runs = MaxImports - 1
  /\ faults = 0
  /\ req = [c \in Clients |-> ReqIdle]
  /\ served = 0
  /\ answered = {}
  /\ call = NoCall
  /\ peer = NoPeer

NextConcurrent ==
  \/ \E lines \in ConcurrentRosters : ImportStart(HeaderSheet, lines)
  \/ ImportRow("ok")
  \/ ImportCommit
  \/ ImportSweep
  \/ \E lines \in ConcurrentRosters : PeerImport(HeaderSheet, lines)
  \/ PeerSweep

SpecConcurrent == InitConcurrent /\ [][NextConcurrent]_vars

(***************************************************************************)
(* Rosters with more failing rows than the report's preview holds.         *)
(***************************************************************************)
MaxLongRows == 12

\* an accepted or a rejected first row, then rows that all fail validation
LongRosters ==
  {<<first>> \o [k \in 1..(MaxLongRows - 4) |-> LineBlank] \o rest :
      first \in {LineA1, LineG2}, rest \in [1..3 -> {LineG2, LineBlank}]}

NextReport ==
  \/ \E lines \in LongRosters \cup ConcurrentRosters : ImportStart(HeaderSheet, lines)
  \/ \E fate \in Fates : ImportRow(fate)
  \/ ImportCommit
  \/ ImportSweep

SpecReport == InitConcurrent /\ [][NextReport]_vars

(***************************************************************************)
(* Properties of the verification workflow (SpecVerify).                   *)
(***************************************************************************)
\* the fields a row of the run writes to a student
RowFields(s) ==
  [name |-> s.name, email |-> s.email, rollNumber |-> s.rollNumber,
   vendor |-> s.vendor, isActive |-> s.isActive]

ClaimedOn(student, day) ==
  {k \in DOMAIN meals : /\ meals[k].student = student
                        /\ meals[k].claimed
                        /\ Midnight(meals[k].date) = day}

\* C1: for every student and calendar day at most one MealRecord with
\* claimed = true exists, whatever the interleaving of the verify requests, and
\* two requests for one student on one day never both answer verified = true.
C1_OneClaimPerDay ==
  /\ \A k \in DOMAIN students : \A t \in 0..MaxTime :
       Cardinality(ClaimedOn(k, Midnight(t))) <= 1
  /\ \A c, d \in Clients :
       ~(/\ c # d
         /\ req[c].outcome = "success" /\ req[d].outcome = "success"
         /\ req[c].student = req[d].student
         /\ Midnight(req[c].date) = Midnight(req[d].date))

\* C2: a request whose MealRecord insert is rejected by the unique index ends
\* in the 'already claimed' outcome, not in a server error.
C2_RejectedWriteIsAlreadyClaimed ==
  \A c \in Clients : req[c].rejected => req[c].outcome = "alreadyClaimed"

Matches(s, identifier) ==
  s.qrCode = identifier \/ s.rollNumber = identifier \/ s.email = identifier

C7_SecondCallAlreadyClaimed ==
  [][\A c \in Clients :
       (/\ req[c].pc = "check"
        /\ req[c].prior # {}
        /\ req'[c] # req[c])
       => /\ req'[c].pc = "done"
          /\ req'[c].outcome = "alreadyClaimed"
          /\ \A k \in req[c].prior : req'[c].claimedAt = meals[k].claimedAt
          /\ req'[c].mealRecord = 0
          /\ meals' = meals
          /\ students' = students]_vars

C7_Witness ==
  \E c \in Clients : /\ req[c].pc = "done"
                     /\ req[c].prior # {}
                     /\ req[c].outcome = "alreadyClaimed"
                     /\ \E k \in req[c].prior : answered = {k}

\* C14: a verify call that answers verified = true has created exactly one
\* MealRecord (that student, the requested vendor, claimed, claimedBy the
\* caller), has appended exactly one entry (that vendor, claimed) to the
\* student's meal history and has set the last-claim cache to that vendor;
\* no step of a call changes any other student or any earlier MealRecord.
C14_SuccessEffects ==
  [][\A c \in Clients :
       req'[c] # req[c]
       => IF req[c].pc = "save" /\ req'[c].pc = "studentSave"
          THEN /\ students' = students
               /\ Len(meals') = Len(meals) + 1
               /\ SubSeq(meals', 1, Len(meals)) = meals
               /\ req'[c].mealRecord = Len(meals')
               /\ LET m == meals'[Len(meals')]
                  IN /\ m.student = req[c].student
                     /\ m.vendor = req[c].vendorId
                     /\ m.claimed
                     /\ m.claimedBy = c
          ELSE IF req'[c].outcome = "success"
          THEN /\ meals' = meals
               /\ req[c].pc = "studentSave"
               /\ req[c].mealRecord \in DOMAIN meals
               /\ DOMAIN students' = DOMAIN students
               /\ \A k \in DOMAIN students :
                    IF k # req[c].student THEN students'[k] = students[k]
                    ELSE /\ Len(students'[k].mealHistory)
                              = Len(students[k].mealHistory) + 1
                         /\ SubSeq(students'[k].mealHistory, 1,
                                   Len(students[k].mealHistory))
                              = students[k].mealHistory
                         /\ LET h == students'[k].mealHistory[Len(students'[k].mealHistory)]
                            IN h.vendor = req[c].vendorId /\ h.claimed
                         /\ students'[k].lastMealClaimed.vendor = req[c].vendorId
                         /\ RowFields(students'[k]) = RowFields(students[k])
                         /\ students'[k].qrCode = students[k].qrCode
          ELSE meals' = meals /\ students' = students]_vars

C14_Witness ==
  \E c \in Clients :
    /\ req[c].outcome = "success"
    /\ Len(meals) = 2
    /\ meals[req[c].mealRecord].claimedBy = c
    /\ \E m \in DOMAIN meals : meals[m].student # req[c].student
    /\ students[req[c].student].mealHistory # <<>>
    /\ students[req[c].student].lastMealClaimed.vendor = req[c].vendorId

\* C20: a verify call that ends in a server error has no partial effect: it
\* leaves no MealRecord of its own in the ledger, in particular when student.save() fails after mealRecord.save() succeeded.
C20_ServerErrorNoPartialEffect ==
  \A c \in Clients :
     (req[c].pc = "done" /\ req[c].outcome = "error500")
     => req[c].mealRecord = 0

\* C22: a verify call evaluates its outcomes in the order not found, wrong
\* vendor, already claimed, success: the first step answers 'not found' exactly
\* when no active student carries the identifier and 'wrong vendor' exactly
\* when the resolved student is assigned to another vendor, whether or not
\* that student has claimed today; 'already claimed' is answered only after
\* both tests passed, for an active student of the requested vendor with a
\* claimed MealRecord in the request's day; success only after the writes.
C22_OutcomeOrder ==
  [][\A c \in Clients :
       req'[c] # req[c]
       => /\ req[c].pc \in {"idle", "done"}
             => LET k == FindStudent(students, req'[c].identifier)
                IN /\ (k = 0) <=> (req'[c].outcome = "notFound")
                   /\ (k # 0 /\ students[k].vendor \in DOMAIN vendors
                              /\ students[k].vendor # req'[c].vendorId)
                        => req'[c].outcome = "wrongVendor"
                   /\ req'[c].outcome = "wrongVendor"
                        => k # 0 /\ students[k].vendor # req'[c].vendorId
                   /\ req'[c].outcome \notin {"alreadyClaimed", "success"}
          /\ req'[c].outcome = "alreadyClaimed"
             => /\ req[c].pc = "check"
                /\ students[req[c].student].isActive
                /\ students[req[c].student].vendor = req[c].vendorId
                /\ ClaimedOn(req[c].student, req[c].today) # {}
                /\ meals' = meals
          /\ req'[c].outcome = "success" => req[c].pc = "studentSave"]_vars

\* a call for a student who had claimed that day is answered 'wrong vendor'
C22_Witness ==
  \E c \in Clients : /\ req[c].pc = "done"
                     /\ req[c].outcome = "wrongVendor"
                     /\ req[c].prior # {}
                     /\ students[req[c].student].lastMealClaimed # NoClaim

DayOf(t) == t \div TicksPerDay

ClaimsOfDay(student, day) ==
  {k \in DOMAIN meals : /\ meals[k].student = student
                        /\ meals[k].claimed
                        /\ DayOf(meals[k].date) = day}

\* C23: the claim window of a verify call is the calendar day of its
\* timestamp, from midnight up to the next midnight: its ledger lookup ends in
\* 'already claimed' exactly when the student has a claimed MealRecord dated in
\* that day; a claim of an earlier day does not block it, the call goes on to
\* its write, and the write adds a further MealRecord for the student.
C23_DailyWindow ==
  [][\A c \in Clients :
       req'[c] # req[c]
       => /\ (req[c].pc \in {"idle", "done"} /\ req'[c].pc = "check")
             => req'[c].today = DayOf(now) * TicksPerDay
          /\ req[c].pc = "check"
             => IF ClaimsOfDay(req[c].student, DayOf(req[c].today)) # {}
                THEN /\ req'[c].pc = "done"
                     /\ req'[c].outcome = "alreadyClaimed"
                     /\ meals' = meals
                ELSE req'[c].pc = "save"
          /\ (req[c].pc = "save"
              /\ ClaimsOfDay(req[c].student, DayOf(req[c].date)) = {})
             => /\ req'[c].pc = "studentSave"
                /\ Len(meals') = Len(meals) + 1
                /\ meals'[Len(meals')].student = req[c].student
                /\ meals'[Len(meals')].date = req[c].date]_vars

\* a call on the day after the student's first claim has succeeded and left a
\* second MealRecord
C23_Witness ==
  \E c \in Clients :
    /\ req[c].outcome = "success"
    /\ DayOf(req[c].today) = 1
    /\ ClaimsOfDay(req[c].student, 0) # {}
    /\ ClaimsOfDay(req[c].student, 1) = {req[c].mealRecord}
    /\ Len(students[req[c].student].mealHistory) = 2

LedgerOf(student) == {k \in DOMAIN meals : meals[k].student = student /\ meals[k].claimed}

ClaimedHistory(s) == {h \in DOMAIN s.mealHistory : s.mealHistory[h].claimed}

\* C26: whenever no verify call is in flight, every student's meal history
\* has as many claimed entries as the ledger has claimed MealRecords of that
\* student, and the last-claim cache names the vendor of the student's most
\* recent MealRecord.
C26_HistoryAgreesWithLedger ==
  (\A c \in Clients : req[c].pc \in {"idle", "done"})
  => \A k \in DOMAIN students :
       /\ Cardinality(ClaimedHistory(students[k])) = Cardinality(LedgerOf(k))
       /\ LedgerOf(k) # {}
          => LET last == CHOOSE m \in LedgerOf(k) : \A n \in LedgerOf(k) : n <= m
             IN students[k].lastMealClaimed.vendor = meals[last].vendor

(***************************************************************************)
(* Properties of the roster import (Spec).                                 *)
(***************************************************************************)
Reported == imp.pc = "done" /\ imp.report.status = "ok"

\* the e-mail cells of the roster, read off the uploaded lines: the column
\* under one of the accepted e-mail headers, blanks dropped
RosterEmails ==
  {Trim(imp.lines[k][c]) : k \in DOMAIN imp.lines,
                           c \in {c \in DOMAIN imp.headers :
                                    \E a \in DOMAIN possibleEmailHeaders :
                                       imp.headers[c] = possibleEmailHeaders[a]}}
    \ {Blank}

ValidRosterEmails == {e \in RosterEmails : EndsWithInstDomain(e)}

\* C3: a run whose roster yields no valid e-mail (column not located, all
\* cells blank, or none in the institutional domain) deactivates no student
\* that was in the registry before the run.
C3_NoEmptyRosterWipe ==
  (Reported /\ ValidRosterEmails = {})
  => \A k \in DOMAIN imp.pre : imp.pre[k].isActive => students[k].isActive

\* C4: importing the same valid roster twice in a row leaves the registry
\* after the second run as it was after the first (students, active set,
\* vendor assignments, vendors) and the second run deactivates nobody.
C4_IdempotentImport ==
  (/\ Reported
   /\ imp.prev.status = "ok"
   /\ imp.prev.headers = imp.headers /\ imp.prev.lines = imp.lines
   /\ imp.prev.errors = 0 /\ imp.report.errors = 0)
  => /\ students = imp.pre
     /\ vendors = imp.preV
     /\ imp.report.deactivatedCount = 0

\* C5: when a run returns its report, every student a row of the run created
\* or updated is active.
C5_ProcessedStayActive ==
  Reported
  => \A p \in DOMAIN imp.processedStudents :
       \A k \in DOMAIN students :
          students[k].email = imp.processedStudents[p] => students[k].isActive

NormalizedName(name) == ToLower(Trim(name))

CreatedVendors == (Len(imp.preV) + 1)..Len(imp.txV)

\* C8: within one run, rows whose vendor names are equal after trimming and
\* lower-casing resolve to one Vendor record, and the run creates at most one
\* Vendor per normalized name.
C8_VendorDedup ==
  imp.pc \in {"rows", "sweep", "done"}
  => /\ \A x, y \in DOMAIN imp.resolved :
          NormalizedName(imp.resolved[x].name) = NormalizedName(imp.resolved[y].name)
          => imp.resolved[x].vendorId = imp.resolved[y].vendorId
     /\ \A j, k \in CreatedVendors :
          NormalizedName(imp.txV[j].name) = NormalizedName(imp.txV[k].name) => j = k

C8_Witness ==
  /\ Reported
  /\ \E x, y \in DOMAIN imp.resolved :
       /\ imp.resolved[x].name # imp.resolved[y].name
       /\ NormalizedName(imp.resolved[x].name) = NormalizedName(imp.resolved[y].name)
       /\ imp.resolved[x].vendorId \in CreatedVendors
       /\ vendors[imp.resolved[x].vendorId].name = imp.resolved[x].name

HasError(row) == \E e \in DOMAIN imp.errors : imp.errors[e].row = row + 1

\* C9: a failure on one row (blank field, wrong domain, or an error while
\* persisting the row's vendor or student) is recorded and does not abort the
\* run: the call returns the report, exactly the failed rows are in the error
\* list, and the other rows' changes are committed.
C9_RowFailureIsRowScoped ==
  imp.pc = "done"
  => /\ imp.report.status = "ok"
     /\ \A k \in DOMAIN imp.results :
          HasError(k) <=> (\/ ~RowValid(studentData(imp.headers, imp.results[k]))
                           \/ imp.fates[k] # "ok")
     /\ \A k \in DOMAIN imp.txS :
          /\ k \in DOMAIN students
          /\ students[k].email = imp.txS[k].email
          /\ students[k].vendor = imp.txS[k].vendor

\* C10: after a run whose roster contains at least one e-mail, every student
\* that was active before the run and whose e-mail is not in the roster is
\* inactive, and no student whose e-mail is in the roster was deactivated.
C10_SweepByEmail ==
  (Reported /\ RosterEmails # {})
  => /\ \A k \in DOMAIN imp.pre :
          (imp.pre[k].isActive /\ imp.pre[k].email \notin RosterEmails)
          => ~students[k].isActive
     /\ \A k \in DOMAIN students :
          (students[k].email \in RosterEmails /\ ~students[k].isActive)
          => (k \in DOMAIN imp.pre /\ ~imp.pre[k].isActive)

C10_Witness ==
  /\ Reported
  /\ RosterEmails # {}
  /\ \E k \in DOMAIN imp.pre :
       imp.pre[k].isActive /\ imp.pre[k].email \notin RosterEmails
       /\ ~students[k].isActive
  /\ \E k \in DOMAIN students :
       students[k].email \in RosterEmails /\ students[k].isActive

\* the cells of an uploaded line, by the position of the documented columns
LineValid(line) ==
  /\ \A c \in 1..4 : Trim(line[c]) # Blank
  /\ EndsWithInstDomain(Trim(line[2]))

\* C12: a CSV with the documented header name,email,rollNumber,vendor is
\* accepted: every row with non-blank name, institutional e-mail, roll number
\* and vendor is processed without error and leaves an active student with
\* that e-mail, roll number and vendor.
C12_DocumentedColumnsAccepted ==
  (/\ Reported
   /\ imp.headers = parseCSVLine(HeaderReadme)
   /\ \A k \in DOMAIN imp.fates : imp.fates[k] = "ok")
  => \A k \in DOMAIN imp.lines :
       LineValid(imp.lines[k])
       => /\ ~HasError(k)
          /\ \E j \in DOMAIN students :
               /\ students[j].email = Trim(imp.lines[k][2])
               /\ students[j].rollNumber = Trim(imp.lines[k][3])
               /\ students[j].isActive
               /\ students[j].vendor \in DOMAIN vendors
               /\ NormalizedName(vendors[students[j].vendor].name)
                    = NormalizedName(imp.lines[k][4])

\* C18: in every state no two Student records share an e-mail and no two
\* share a roll/batch identifier, also after rows whose e-mail and roll id
\* point at different students.
C18_UniqueEmailAndRoll ==
  \A j, k \in DOMAIN students :
     j # k => /\ students[j].email # students[k].email
              /\ students[j].rollNumber # students[k].rollNumber

\* a line with a blank name, e-mail, roll id or vendor cell, or with an e-mail
\* of another domain (the columns are name, e-mail, roll id, vendor)
LineInvalid(line) ==
  \/ \E c \in 1..4 : Trim(line[c]) = Blank
  \/ Trim(line[2])[Len(Trim(line[2]))] # "@sst.scaler.com"

\* C21: a roster row with a blank required cell or an e-mail outside the
\* institutional domain is rejected with one error entry and has no other
\* effect: no vendor is created or looked up (the vendor map is unchanged), no
\* student is created or modified, and the row is not counted as processed.
C21_InvalidRowNoEffect ==
  [][(/\ imp.pc = "rows" /\ imp.i <= Len(imp.results) /\ imp' # imp
      /\ LineInvalid(imp.lines[imp.i]))
     => /\ Len(imp'.errors) = Len(imp.errors) + 1
        /\ imp'.errors[Len(imp'.errors)].row = imp.i + 1
        /\ imp'.errors[Len(imp'.errors)].kind
             \in {"Missing required fields", "Invalid email domain"}
        /\ imp'.txS = imp.txS /\ imp'.txV = imp.txV
        /\ imp'.vendorMap = imp.vendorMap
        /\ imp'.processedStudents = imp.processedStudents
        /\ imp'.touched = imp.touched
        /\ imp'.i = imp.i + 1
        /\ students' = students /\ vendors' = vendors]_vars

C21_Witness ==
  /\ Reported
  /\ Len(imp.lines) = 2
  /\ imp.lines[1] = LineG2
  /\ imp.lines[2] = LineA1
  /\ imp.report.errors = 1 /\ imp.report.processed = 1
  /\ imp.errors[1] = [row |-> 2, kind |-> "Invalid email domain"]
  /\ Len(students) = 1 /\ Len(vendors) = 1

ProcessedRows == {r \in DOMAIN imp.results : ~HasError(r)}

RowData(r) == studentData(imp.headers, imp.results[r])

\* C24: after a run whose processed rows carry pairwise different e-mails,
\* every processed row has its Student record: the e-mail is the row's, the
\* roll number is the row's roll id and the vendor is the one resolved for the
\* row; so n such rows leave n different students, also when rows share a roll
\* id or a roll id is that of an existing student with another e-mail.
C24_ProcessedRowHasItsStudent ==
  (/\ Reported
   /\ \A r, q \in ProcessedRows :
        ToLower(Trim(RowData(r).email)) = ToLower(Trim(RowData(q).email)) => r = q)
  => \A r \in ProcessedRows :
       \E k \in DOMAIN students :
          /\ students[k].email = ToLower(Trim(RowData(r).email))
          /\ students[k].rollNumber = Trim(RowData(r).rollNumber)
          /\ \E x \in DOMAIN imp.resolved :
                /\ imp.resolved[x].row = r
                /\ students[k].vendor = imp.resolved[x].vendorId

(***************************************************************************)
(* Properties of concurrent imports (SpecConcurrent).                      *)
(***************************************************************************)
Registry(db) == {RowFields(db.students[k]) : k \in DOMAIN db.students}

\* C25: when two upload-csv runs with different rosters have both completed,
\* the Student Registry is the one that running the two imports one after the
\* other, in one of the two orders, leaves behind.
C25_ConcurrentImportsSerializable ==
  (/\ imp.pc = "done" /\ imp.report.status = "ok"
   /\ peer.pc = "done"
   /\ imp.lines # peer.lines)
  => LET first == Reconcile(Reconcile(ConcurrentRegistry, HeaderSheet, imp.lines),
                            HeaderSheet, peer.lines)
         second == Reconcile(Reconcile(ConcurrentRegistry, HeaderSheet, peer.lines),
                             HeaderSheet, imp.lines)
     IN Registry([students |-> students, vendors |-> vendors])
          \in {Registry(first), Registry(second)}

(***************************************************************************)
(* Properties of the service as a whole (SpecService).                     *)
(***************************************************************************)
\* C11: the create/update phase of an upload-csv run is atomic for readers:
\* while the rows are processed nothing of the run is visible in the Student
\* and Vendor collections; a run that fails before the commit leaves nothing
\* visible; the commit makes every student the run created or updated and
\* every vendor it created visible in one step.
C11_BatchAtomicForReaders ==
  [][(imp.pc = "rows" /\ imp' # imp)
     => \/ /\ imp'.pc = "rows"
           /\ students' = students /\ vendors' = vendors
        \/ /\ imp'.pc = "done" /\ imp'.report.status = "failed"
           /\ students' = students /\ vendors' = vendors
        \/ /\ imp'.pc = "sweep"
           /\ vendors' = imp.txV
           /\ DOMAIN students' = DOMAIN imp.txS
           /\ \A k \in DOMAIN imp.txS :
                (k \in imp.touched \/ k \notin DOMAIN students)
                => RowFields(students'[k]) = RowFields(imp.txS[k])]_vars

C11_Witness ==
  /\ imp.pc = "sweep"
  /\ imp.touched # {}
  /\ Len(students) > Len(imp.pre)
  /\ Len(vendors) > Len(imp.preV)
  /\ \E k \in imp.touched : RowFields(students[k]) # RowFields(imp.pre[k])
  /\ req["c1"].pc \in {"check", "save", "studentSave"}

\* C13: a verify call ends in 'not found' exactly when, at its lookup, no
\* active student carries the identifier as QR token, roll number or e-mail;
\* it then creates no MealRecord and changes no student.  In particular the
\* lookup never resolves to a deactivated student, so a call made while the
\* student is inactive cannot succeed.
C13_NotFoundIffNoActiveStudent ==
  [][\A c \in Clients :
       (req[c].pc \in {"idle", "done"} /\ req'[c] # req[c])
       => LET none == ~\E k \in DOMAIN students :
                          students[k].isActive /\ Matches(students[k], req'[c].identifier)
          IN /\ (req'[c].outcome = "notFound") <=> none
             /\ none => /\ req'[c].pc = "done"
                        /\ req'[c].student = 0
                        /\ req'[c].mealRecord = 0
                        /\ meals' = meals
                        /\ students' = students
             /\ req'[c].student # 0 => students[req'[c].student].isActive]_vars

C13_Witness ==
  /\ call.op = "delete" /\ call.id = 1 /\ call.status = 200
  /\ ~students[1].isActive
  /\ req["c1"].pc = "done"
  /\ req["c1"].outcome = "notFound"
  /\ Matches(students[1], req["c1"].identifier)

\* C15: the meal ledger is append-only and is written only by successful
\* verify calls: no step modifies or removes a MealRecord, and every
\* MealRecord belongs to a verify call that answered verified = true or is
\* still on its way to that answer.
C15_LedgerAppendOnly ==
  /\ [][/\ Len(meals') >= Len(meals)
        /\ SubSeq(meals', 1, Len(meals)) = meals]_vars
  /\ [](\A m \in DOMAIN meals :
          \/ m \in answered
          \/ \E c \in Clients : req[c].pc = "studentSave" /\ req[c].mealRecord = m)

\* C16: a student's QR token is immutable once set: no step of an import
\* (deactivation and reactivation included), of a verify call, of PUT or
\* DELETE /students/:id or of GET /students/my-qr-code changes the token of a
\* student that has one, and no two students hold the same token.
C16_QrCodeImmutable ==
  /\ [][\A k \in DOMAIN students :
          ~Falsy(students[k].qrCode)
          => k \in DOMAIN students' /\ students'[k].qrCode = students[k].qrCode]_vars
  /\ [](\A j, k \in DOMAIN students :
          students[j].qrCode = students[k].qrCode => j = k)

C16_Witness ==
  /\ Reported
  /\ 2 \in imp.touched
  /\ ~imp.pre[2].isActive
  /\ students[2].isActive
  /\ students[2].qrCode = ServiceRegistry.students[2].qrCode
  /\ call.op = "my-qr-code" /\ call.id = 2 /\ call.status = 200
  /\ call.qrCode = students[2].qrCode
  /\ Len(students) > Len(imp.pre)

\* C19: in every state every active student is assigned to a vendor that
\* exists in the Vendor collection, whatever upload-csv runs and
\* PUT /students/:id calls (with or without a vendor in the body) were made.
C19_ActiveStudentHasVendor ==
  \A k \in DOMAIN students :
     students[k].isActive => students[k].vendor \in DOMAIN vendors

(***************************************************************************)
(* Properties of the Student collection under the imports and the          *)
(* importStudents script (SpecScript).                                     *)
(***************************************************************************)
\* C17: a Student record is never physically deleted: after every step of
\* every operation (DELETE /students/:id, bulk-deactivate, the roster sweep,
\* the import script) each student record that existed still exists, with its
\* e-mail, its token and its meal history.
C17_NeverPhysicallyDeleted ==
  [][\A k \in DOMAIN students :
       \E j \in DOMAIN students' :
          /\ students'[j].qrCode = students[k].qrCode
          /\ students'[j].email = students[k].email
          /\ Len(students'[j].mealHistory) >= Len(students[k].mealHistory)]_vars

\* C27: every MealRecord is written for a student who, at the moment of the
\* write, is active and assigned to the record's vendor, whatever deactivation
\* (sweep, DELETE, bulk-deactivate) or reassignment (upload-csv, PUT) runs
\* beside the verify call.
C27_WrittenForActiveStudentOfVendor ==
  [][Len(meals') > Len(meals)
     => LET m == meals'[Len(meals')]
        IN /\ m.student \in DOMAIN students
           /\ students[m.student].isActive
           /\ students[m.student].vendor = m.vendor]_vars

C30_ReportCounts ==
  [][(imp.pc = "sweep" /\ imp'.pc = "done")
     => LET r == imp'.report
        IN /\ r.totalRows = Len(imp.lines)
           /\ r.processed + r.errors = r.totalRows
           /\ r.errors = Len(imp.errors)
           /\ \A x, y \in DOMAIN imp.errors :
                x < y => imp.errors[x].row < imp.errors[y].row
           /\ Len(r.errorDetails) <= 10
           /\ Len(r.errorDetails) = (IF r.errors < 10 THEN r.errors ELSE 10)
           /\ \A j \in DOMAIN r.errorDetails : r.errorDetails[j] = imp.errors[j]
           /\ r.deactivatedCount
                = Cardinality({k \in DOMAIN students :
                                 students[k].isActive /\ ~students'[k].isActive})
           /\ Len(imp.csvEmails) = 0 => r.deactivatedCount = 0]_vars

\* a report with more errors than the preview holds, one processed row and a
\* student deactivated by the sweep
C30_Witness ==
  /\ Reported
  /\ imp.report.totalRows = MaxLongRows
  /\ imp.report.processed = 1
  /\ imp.report.errors = 11
  /\ Len(imp.report.errorDetails) = 10
  /\ imp.report.deactivatedCount = 1

(***************************************************************************)
(* The vendor a claim is recorded for (SpecVerify).                        *)
(***************************************************************************)
\* C28: a MealRecord is recorded only for the vendor its calling principal
\* belongs to: a principal attached to one vendor cannot, by naming another
\* vendor in the request body, create a MealRecord for a student of that
\* other vendor.
C28_RecordedForPrincipalsVendor ==
  \A k \in DOMAIN meals :
     meals[k].claimedBy \in Clients
     => meals[k].vendor = PrincipalVendor[meals[k].claimedBy]

====
